---- MODULE Spec2Model ----
(***************************************************************************)
(* Model of the probability and decision engine of engarde_client          *)
(* (src/src/lib.rs, src/src/algorithm.rs, src/src/algorithm2.rs) and of    *)
(* the receive loops of its clients (src/src/bin/engarde_client.rs,        *)
(* src/src/bin/random.rs).                                                 *)
(*                                                                         *)
(* The engine is a set of pure functions.  Each specification below draws  *)
(* the arguments of one family of functions in its initial states and has  *)
(* one action per function that applies it and stores what it returned.    *)
(* Arrays keep the 0-based indices of the source, so that an index the     *)
(* source computes is the index the model uses.                            *)
(***************************************************************************)
EXTENDS Integers, Sequences, FiniteSets, TLC

VARIABLES
    pc,              \* "start" before the call, "done" after it; in the session
                     \* loop "loop", "ended" (GameEnd or an io error), "aborted"
    num_of_deck,     \* argument num_of_deck: u8
    rest_cards,      \* argument of type RestCards: [0..4 -> Maisuu]
    hands,           \* argument hands: &[CardID], a sorted sequence
    distance,        \* argument distance
    action,          \* argument action: Action
    parried_quant,   \* argument parried_quant: u8
    acceptable_numbers, \* argument acceptable: &AcceptableNumbers, [0..4 -> BOOLEAN]
    self,            \* receiver &self of a Maisuu operation
    other,           \* argument other: Maisuu
    n_u8,            \* argument n: u8
    table,           \* the ProbabilityTable built for the call
    ret,             \* what the called function returned
    ret2,            \* what the second function called on the same arguments returned
    id,              \* MyState.id of the random client: PlayerID, 0 or 1
    p0_position,     \* MyState.p0_position of the random client
    p1_position,     \* MyState.p1_position of the random client
    sent             \* what the arm of the receive loop taken last wrote to bufwriter

vars == <<pc, num_of_deck, rest_cards, hands, distance, action, parried_quant,
          acceptable_numbers, self, other, n_u8, table, ret, ret2,
          id, p0_position, p1_position, sent>>

\* what a call of a function leaves alone: its arguments, and the client state and
\* the stream that it does not touch
argVars == <<num_of_deck, rest_cards, hands, distance, action, parried_quant,
            acceptable_numbers, self, other, n_u8, id, p0_position, p1_position, sent>>

(***************************************************************************)
(* Bounds of the model.                                                    *)
(***************************************************************************)
\* largest deck size drawn when only the probability table is built
MaxDeck == 15

(***************************************************************************)
(* Program constants.                                                      *)
(***************************************************************************)
HANDS_DEFAULT == 5
MaisuuMAX == 5
SOKUSHI == 3
CardIDMAX == 5

CardID == 1..CardIDMAX
Maisuu == 0..MaisuuMAX
RestIndex == 0..(CardIDMAX - 1)

(***************************************************************************)
(* Option / panic values.  A call returns Some(v), None, or aborts.        *)
(***************************************************************************)
Some(v) == [tag |-> "Some", val |-> v]
None == [tag |-> "None", val |-> <<>>]
Panic == [tag |-> "Panic", val |-> <<>>]
NotCalled == [tag |-> "NotCalled", val |-> <<>>]
IsSome(o) == o.tag = "Some"

(***************************************************************************)
(* Ratio<u64>: a reduced fraction <<numer, denom>> with denom > 0.         *)
(***************************************************************************)
RECURSIVE Gcd(_, _)
Gcd(a, b) == IF b = 0 THEN a ELSE Gcd(b, a % b)

\* Ratio::new: reduce to lowest terms
RatioNew(n, d) == LET g == Gcd(n, d) IN <<n \div g, d \div g>>

RatioFromInteger(n) == <<n, 1>>
RatioZero == <<0, 1>>
RatioOne == <<1, 1>>

Lcm(a, b) == (a \div Gcd(a, b)) * b

\* impl Add for Ratio: over the least common multiple of the denominators
RatioAdd(a, b) ==
    LET l == Lcm(a[2], b[2])
    IN RatioNew(a[1] * (l \div a[2]) + b[1] * (l \div b[2]), l)

\* impl Ord for Ratio
RatioLe(a, b) ==
    LET l == Lcm(a[2], b[2])
    IN a[1] * (l \div a[2]) <= b[1] * (l \div b[2])

RECURSIVE RatioSum(_)
RatioSum(s) == IF s = <<>> THEN RatioZero ELSE RatioAdd(Head(s), RatioSum(Tail(s)))

(***************************************************************************)
(* algorithm.rs: permutation, combination, probability                     *)
(***************************************************************************)
RECURSIVE Product(_, _)
\* (lo..=hi).product()
Product(lo, hi) == IF lo > hi THEN 1 ELSE lo * Product(lo + 1, hi)

permutation(n, r) == IF n < r THEN 0 ELSE Product(n - r + 1, n)

\* a plausible slip: the division by r! is forgotten
combination_nodivide(n, r) == permutation(n, r)

combination(n, r) == permutation(n, r) \div Product(1, r)

\* a plausible slip: the binomial factor C(5, r) is left out
probability_nobinomial(target_unvisible_cards, total_unvisible_cards) ==
    [r \in 0..HANDS_DEFAULT |->
        RatioNew(permutation(target_unvisible_cards, r)
                   * permutation(total_unvisible_cards - target_unvisible_cards,
                                 HANDS_DEFAULT - r),
                 permutation(total_unvisible_cards, HANDS_DEFAULT))]

\* a plausible slip: the divisor is the number of hands C(total, 5), while the
\* numerator still counts ordered draws
probability_combdivisor(target_unvisible_cards, total_unvisible_cards) ==
    [r \in 0..HANDS_DEFAULT |->
        RatioNew(combination(HANDS_DEFAULT, r)
                   * permutation(target_unvisible_cards, r)
                   * permutation(total_unvisible_cards - target_unvisible_cards,
                                 HANDS_DEFAULT - r),
                 combination(total_unvisible_cards, HANDS_DEFAULT))]

\* a plausible slip: the two permutations take each other's count
probability_swapped(target_unvisible_cards, total_unvisible_cards) ==
    [r \in 0..HANDS_DEFAULT |->
        RatioNew(combination(HANDS_DEFAULT, r)
                   * permutation(target_unvisible_cards, HANDS_DEFAULT - r)
                   * permutation(total_unvisible_cards - target_unvisible_cards, r),
                 permutation(total_unvisible_cards, HANDS_DEFAULT))]

\* probability(target, total)[r]: Ratio::from_integer(..) / permutation(total, 5)
probability(target_unvisible_cards, total_unvisible_cards) ==
    [r \in 0..HANDS_DEFAULT |->
        RatioNew(combination(HANDS_DEFAULT, r)
                   * permutation(target_unvisible_cards, r)
                   * permutation(total_unvisible_cards - target_unvisible_cards,
                                 HANDS_DEFAULT - r),
                 permutation(total_unvisible_cards, HANDS_DEFAULT))]

\* probability is a pure function of two small numbers: its values, computed once
ProbabilityValues ==
    [t \in Maisuu, n \in HANDS_DEFAULT..(MaxDeck + 2 * HANDS_DEFAULT) |-> probability(t, n)]

\* ProbabilityTable::new; card1..card5 are the entries 1..5
ProbabilityTableNew(deck, cards) ==
    LET total_unvisible_cards == deck + HANDS_DEFAULT
    IN [c \in CardID |-> ProbabilityValues[cards[c - 1], total_unvisible_cards]]

\* ProbabilityTable::access
access(t, card, quantity) == t[card][quantity]

NoTable == [c \in CardID |-> [r \in 0..HANDS_DEFAULT |-> RatioZero]]

(***************************************************************************)
(* Argument sets.                                                          *)
(***************************************************************************)
RestCardsNew == [i \in RestIndex |-> MaisuuMAX]
AllRestCards == [RestIndex -> Maisuu]

\* Action::Move(Movement::new(card, direction)), Action::Attack(Attack::new(card, quantity))
Move(card, direction) ==
    [kind |-> "Move", card |-> card, direction |-> direction, quantity |-> 0]
Attack(card, quantity) ==
    [kind |-> "Attack", card |-> card, direction |-> "-", quantity |-> quantity]
\* the AcceptableNumbers of a call that takes none
NoAcceptable == [i \in RestIndex |-> FALSE]

NoAction == [kind |-> "NoAction", card |-> 1, direction |-> "-", quantity |-> 0]

(***************************************************************************)
(* SpecTable: ProbabilityTable::new on every RestCards table and deck size *)
(***************************************************************************)
InitTable ==
    /\ pc = "start"
    /\ acceptable_numbers = NoAcceptable
    /\ self = 0
    /\ other = 0
    /\ n_u8 = 0
    /\ num_of_deck \in 0..MaxDeck
    /\ rest_cards \in AllRestCards
    /\ hands = <<>>
    /\ distance = 0
    /\ action = NoAction
    /\ parried_quant = 0
    /\ table = NoTable
    /\ ret = NotCalled
    /\ ret2 = NotCalled
    /\ id = 0
    /\ p0_position = 0
    /\ p1_position = 0
    /\ sent = <<>>

BuildTable ==
    /\ pc = "start"
    /\ pc' = "done"
    /\ table' = ProbabilityTableNew(num_of_deck, rest_cards)
    /\ UNCHANGED <<argVars, ret, ret2>>

NextTable == BuildTable

SpecTable == InitTable /\ [][NextTable]_vars

(***************************************************************************)
(* Claims about the probability table.                                     *)
(***************************************************************************)
\* C1: every per-rank distribution built by ProbabilityTable::new sums over
\* k = 0..5 to exactly 1.
C1_DistributionsSumToOne ==
    pc = "done" =>
        \A c \in CardID :
            RatioSum([k \in 1..(HANDS_DEFAULT + 1) |-> table[c][k - 1]]) = RatioOne

C1_Witness ==
    /\ pc = "done"
    /\ rest_cards[2] = 3
    /\ num_of_deck = 10
    /\ table[3][1] # RatioZero
    /\ table[3][3] # RatioZero

\* textbook binomial coefficient: C(n,0) = 1, C(n,k) = C(n,k-1) * (n-k+1) / k
RECURSIVE Choose(_, _)
Choose(n, k) ==
    IF k < 0 \/ k > n THEN 0
    ELSE IF k = 0 THEN 1
    ELSE (Choose(n, k - 1) * (n - k + 1)) \div k

\* C2: probability(t, N)[k] is the hypergeometric probability
\* C(t,k) * C(N-t,5-k) / C(N,5), for the count t of every rank.
C2_Hypergeometric ==
    pc = "done" =>
        \A c \in CardID : \A k \in 0..HANDS_DEFAULT :
            LET t == rest_cards[c - 1]
                N == num_of_deck + HANDS_DEFAULT
            IN table[c][k] =
                   RatioNew(Choose(t, k) * Choose(N - t, HANDS_DEFAULT - k),
                            Choose(N, HANDS_DEFAULT))

C2_Witness ==
    /\ pc = "done"
    /\ rest_cards[0] = 4
    /\ num_of_deck = 7
    /\ table[1][2] = RatioNew(Choose(4, 2) * Choose(8, 3), Choose(12, 5))
    /\ table[1][2] # RatioZero

(***************************************************************************)
(* lib.rs: CardID, Maisuu                                                  *)
(***************************************************************************)
\* CardID::from_u8
CardID_from_u8(n) == IF n \in 1..5 THEN Some(n) ELSE None

\* Maisuu::from_usize
Maisuu_from_usize(n) == IF n <= 5 THEN Some(n) ELSE None

\* Maisuu::saturating_sub
saturating_sub(a, b) == IF a >= b THEN a - b ELSE 0

\* u8 subtraction a - b: panics under overflow checks, wraps without them
U8Sub(overflow_checks, a, b) ==
    IF a >= b THEN Some(a - b)
    ELSE IF overflow_checks THEN Panic
    ELSE Some((a - b) + 256)

\* Index<usize> for RestCards: self.cards.get(index).expect("out of bound")
RestCardsIndex(cards, index) ==
    IF index \in DOMAIN cards THEN Some(cards[index]) ELSE Panic

\* indexing a [Maisuu] slice of five entries
SliceIndex(slice, index) ==
    IF index \in DOMAIN slice THEN Some(slice[index]) ELSE Panic

(***************************************************************************)
(* algorithm.rs: card_map_from_hands, hands_from_card_map, count_cards     *)
(***************************************************************************)
\* hands.iter().filter(|&&y| x == y).count()
CountIn(h, x) == Cardinality({j \in DOMAIN h : h[j] = x})

card_map_from_hands(h) ==
    IF \E x \in CardID : Maisuu_from_usize(CountIn(h, x)) = None
    THEN None
    ELSE Some([i \in RestIndex |-> CountIn(h, i + 1)])

\* iter::repeat(card).take(n)
Repeat(card, n) == [j \in 1..n |-> card]

\* For i in 0..5: CardID::from_u8(i) is None for i = 0, so the entry is skipped;
\* for i in 1..4 the card i is repeated card_map[i] times.  try_into::<[CardID; 5]>
\* succeeds only on exactly five cards.
hands_from_card_map(card_map) ==
    LET part(i) ==
            IF CardID_from_u8(i) = None \/ i \notin DOMAIN card_map THEN <<>>
            ELSE Repeat(CardID_from_u8(i).val, card_map[i])
        collected == part(0) \o part(1) \o part(2) \o part(3) \o part(4)
    IN IF Len(collected) = 5 THEN Some(collected) ELSE None

\* HandsUtil::count_cards: Maisuu::from_usize(..).expect("必ずMaisuuの境界内")
count_cards(h, card_id) ==
    IF Maisuu_from_usize(CountIn(h, card_id)) = None THEN Panic
    ELSE Some(CountIn(h, card_id))

(***************************************************************************)
(* algorithm.rs: safe_possibility, win_poss_attack                         *)
(***************************************************************************)
\* [Maisuu::ZERO, Maisuu::ONE, Maisuu::TWO, Maisuu::SOKUSHI]
AttackQuants == <<0, 1, 2, SOKUSHI>>
\* [Maisuu::ONE, Maisuu::TWO, Maisuu::SOKUSHI]
MoveQuants == <<1, 2, SOKUSHI>>

\* check_twice: distance - (i * 2) == 0, in u8
check_twice(overflow_checks, dist, i) ==
    LET diff == U8Sub(overflow_checks, dist, i * 2)
    IN IF diff = Panic THEN Panic ELSE Some(diff.val = 0)

\* hands[usize::from(card_num.denote())] >= enemy_quant
calc_possibility_attack(hands_map, t, card_num) ==
    IF SliceIndex(hands_map, card_num) = Panic THEN Panic
    ELSE Some(RatioSum([j \in DOMAIN AttackQuants |->
                 IF hands_map[card_num] >= AttackQuants[j]
                 THEN access(t, card_num, AttackQuants[j])
                 ELSE RatioZero]))

\* hands[usize::from(card_num.denote())].saturating_sub(dup) >= i
calc_possibility_move(hands_map, t, card_num, dup) ==
    IF SliceIndex(hands_map, card_num) = Panic THEN Panic
    ELSE Some(RatioSum([j \in DOMAIN MoveQuants |->
                 IF saturating_sub(hands_map[card_num], IF dup THEN 1 ELSE 0)
                        >= MoveQuants[j]
                 THEN access(t, card_num, MoveQuants[j])
                 ELSE RatioZero]))

\* safe_possibility, match arm Action::Attack
safe_possibility_attack(rest, h, t, act) ==
    LET i == act.card
        r == RestCardsIndex(rest, i)
        c == count_cards(h, act.card)
        map == card_map_from_hands(h)
    IN IF r = Panic \/ c = Panic THEN Panic
       ELSE IF r.val <= c.val THEN Some(RatioOne)
       ELSE IF map = None THEN None
       ELSE calc_possibility_attack(map.val, t, act.card)

\* safe_possibility, match arm Action::Move with Direction::Forward
safe_possibility_forward(overflow_checks, dist, rest, h, t, act) ==
    LET card == act.card
        i == card
        dup == check_twice(overflow_checks, dist, card)
        r == RestCardsIndex(rest, i)
        c == count_cards(h, card)
        diff == U8Sub(overflow_checks, dist, card)
        map == card_map_from_hands(h)
    IN IF dup = Panic THEN Panic
       ELSE IF r = Panic \/ c = Panic THEN Panic
       ELSE IF r.val <= saturating_sub(c.val, IF dup.val THEN 1 ELSE 0)
            THEN Some(RatioOne)
       ELSE IF diff = Panic THEN Panic
       ELSE IF CardID_from_u8(diff.val) # None
            THEN IF map = None THEN None
                 ELSE calc_possibility_move(map.val, t, CardID_from_u8(diff.val).val,
                                            dup.val)
       ELSE Some(RatioZero)

\* safe_possibility, match arm Action::Move (Direction::Back)
safe_possibility_back(dist, rest, h, t, act) ==
    LET card == act.card
        i == card
        r == RestCardsIndex(rest, i)
        c == count_cards(h, card)
        map == card_map_from_hands(h)
    IN IF r = Panic \/ c = Panic THEN Panic
       ELSE IF r.val <= c.val THEN Some(RatioOne)
       ELSE IF CardID_from_u8(dist + card) # None
            THEN IF map = None THEN None
                 ELSE calc_possibility_move(map.val, t, CardID_from_u8(dist + card).val,
                                            FALSE)
       ELSE Some(RatioZero)

safe_possibility(overflow_checks, dist, rest, h, t, act) ==
    IF act.kind = "Attack" THEN safe_possibility_attack(rest, h, t, act)
    ELSE IF act.direction = "Forward"
         THEN safe_possibility_forward(overflow_checks, dist, rest, h, t, act)
    ELSE safe_possibility_back(dist, rest, h, t, act)

\* win_poss_attack::calc_win_possibility: hands[..] > enemy_quant
calc_win_possibility(hands_map, t, card_num) ==
    IF SliceIndex(hands_map, card_num) = Panic THEN Panic
    ELSE Some(RatioSum([j \in DOMAIN AttackQuants |->
                 IF hands_map[card_num] > AttackQuants[j]
                 THEN access(t, card_num, AttackQuants[j])
                 ELSE RatioZero]))

win_poss_attack(rest, h, t, act) ==
    IF act.kind = "Attack"
    THEN LET i == act.card
             r == RestCardsIndex(rest, i)
             c == count_cards(h, act.card)
             map == card_map_from_hands(h)
         IN IF r = Panic \/ c = Panic THEN Panic
            ELSE IF r.val < c.val THEN Some(RatioOne)
            ELSE IF map = None THEN None
            ELSE calc_win_possibility(map.val, t, act.card)
    ELSE Some(RatioZero)

(***************************************************************************)
(* Argument sets of the evaluators.                                        *)
(***************************************************************************)
\* rounds in which at most MaxPlayed cards have been seen played
MaxPlayed == 2
\* rounds in which at most MaxRestSum cards are still unseen
MaxRestSum == 2
\* largest distance drawn for a Move handed to the evaluators
MaxEvalDistance == 7

RECURSIVE SumTo(_, _)
SumTo(f, i) == IF i < 0 THEN 0 ELSE f[i] + SumTo(f, i - 1)
\* restcards.iter().map(Maisuu::denote).sum()
SumCards(f) == SumTo(f, CardIDMAX - 1)

EarlyRestCards ==
    {r \in AllRestCards : CardIDMAX * MaisuuMAX - SumCards(r) <= MaxPlayed}
LateRestCards == {r \in AllRestCards : SumCards(r) <= MaxRestSum}
EvalRestCards == EarlyRestCards \cup LateRestCards

\* the sorted hand holding m[i] cards of number i + 1
SortedHand(m) ==
    Repeat(1, m[0]) \o Repeat(2, m[1]) \o Repeat(3, m[2]) \o Repeat(4, m[3])
        \o Repeat(5, m[4])
AllHands == {SortedHand(m) : m \in {c \in AllRestCards : SumCards(c) <= HANDS_DEFAULT}}

\* The deck that card conservation leaves: the unseen cards are the cards not seen
\* played less one's own hand, and five of them are in the opponent's hand.
DeckFor(rest, h) ==
    IF SumCards(rest) - Len(h) - HANDS_DEFAULT > 0
    THEN SumCards(rest) - Len(h) - HANDS_DEFAULT
    ELSE 0

Directions == {"Forward", "Back"}
MoveActions == {Move(c, d) : c \in CardID, d \in Directions}
\* an attack with every held copy of a card
AttackActions(h) == {Attack(c, CountIn(h, c)) : c \in CardID}

(***************************************************************************)
(* SpecEval: safe_possibility and win_poss_attack on the same arguments    *)
(***************************************************************************)
InitEval ==
    /\ pc = "start"
    /\ acceptable_numbers = NoAcceptable
    /\ self = 0
    /\ other = 0
    /\ n_u8 = 0
    /\ rest_cards \in EvalRestCards
    /\ hands \in AllHands
    /\ num_of_deck = DeckFor(rest_cards, hands)
    /\ action \in MoveActions \cup AttackActions(hands)
    /\ distance \in IF action.kind = "Attack" THEN {action.card} ELSE 0..MaxEvalDistance
    /\ parried_quant = 0
    /\ table = ProbabilityTableNew(num_of_deck, rest_cards)
    /\ ret = NotCalled
    /\ ret2 = NotCalled
    /\ id = 0
    /\ p0_position = 0
    /\ p1_position = 0
    /\ sent = <<>>

EvalAttack ==
    /\ pc = "start"
    /\ action.kind = "Attack"
    /\ pc' = "done"
    /\ \E overflow_checks \in BOOLEAN :
          ret' = safe_possibility(overflow_checks, distance, rest_cards, hands, table,
                                  action)
    /\ ret2' = win_poss_attack(rest_cards, hands, table, action)
    /\ UNCHANGED <<argVars, table>>

EvalForward ==
    /\ pc = "start"
    /\ action.kind = "Move"
    /\ action.direction = "Forward"
    /\ pc' = "done"
    /\ \E overflow_checks \in BOOLEAN :
          ret' = safe_possibility(overflow_checks, distance, rest_cards, hands, table,
                                  action)
    /\ ret2' = win_poss_attack(rest_cards, hands, table, action)
    /\ UNCHANGED <<argVars, table>>

EvalBack ==
    /\ pc = "start"
    /\ action.kind = "Move"
    /\ action.direction = "Back"
    /\ pc' = "done"
    /\ \E overflow_checks \in BOOLEAN :
          ret' = safe_possibility(overflow_checks, distance, rest_cards, hands, table,
                                  action)
    /\ ret2' = win_poss_attack(rest_cards, hands, table, action)
    /\ UNCHANGED <<argVars, table>>

NextEval == EvalAttack \/ EvalForward \/ EvalBack

SpecEval == InitEval /\ [][NextEval]_vars

(***************************************************************************)
(* Claims about the evaluators.                                            *)
(***************************************************************************)
InUnitInterval(q) == RatioLe(RatioZero, q) /\ RatioLe(q, RatioOne)

\* C4: for every Attack of rank 1..5, both evaluators return a value and
\* win_poss_attack <= safe_possibility.
C4_WinAtMostSafe ==
    (pc = "done" /\ action.kind = "Attack") =>
        /\ IsSome(ret)
        /\ IsSome(ret2)
        /\ RatioLe(ret2.val, ret.val)

\* C5: any value returned by safe_possibility or win_poss_attack, for a Move
\* Forward, a Move Back or an Attack, lies in [0, 1].
C5_ValuesInUnitInterval ==
    pc = "done" =>
        /\ IsSome(ret) => InUnitInterval(ret.val)
        /\ IsSome(ret2) => InUnitInterval(ret2.val)

C5_Witness ==
    /\ pc = "done"
    /\ action.kind = "Move"
    /\ action.direction = "Forward"
    /\ IsSome(ret)
    /\ ret.val # RatioZero
    /\ ret.val # RatioOne
    /\ InUnitInterval(ret.val)

\* C6: for an Attack of rank r, whenever the remaining-unseen count of rank r
\* itself is at most the number of copies of rank r in the hand,
\* safe_possibility returns exactly 1.
C6_AttackGuardYieldsOne ==
    (/\ pc = "done"
     /\ action.kind = "Attack"
     /\ rest_cards[action.card - 1] <= CountIn(hands, action.card))
        => ret = Some(RatioOne)

\* C6, the example of the claim: hand [3,3,3] with RestCounts[3] = 3 and an
\* attack of rank 3 yields 1.
C6_Example ==
    (/\ pc = "done"
     /\ action = Attack(3, 3)
     /\ hands = <<3, 3, 3>>
     /\ rest_cards[2] = 3)
        => ret = Some(RatioOne)

(***************************************************************************)
(* SpecConv: card_map_from_hands followed by hands_from_card_map           *)
(***************************************************************************)
\* longest hand drawn for the conversions
MaxConvHandLen == 6

ConvHands ==
    {SortedHand(m) : m \in {c \in [RestIndex -> 0..MaxConvHandLen] :
                                SumCards(c) <= MaxConvHandLen}}

InitConv ==
    /\ pc = "start"
    /\ acceptable_numbers = NoAcceptable
    /\ self = 0
    /\ other = 0
    /\ n_u8 = 0
    /\ hands \in ConvHands
    /\ rest_cards = RestCardsNew
    /\ num_of_deck = 0
    /\ action = NoAction
    /\ distance = 0
    /\ parried_quant = 0
    /\ table = NoTable
    /\ ret = NotCalled
    /\ ret2 = NotCalled
    /\ id = 0
    /\ p0_position = 0
    /\ p1_position = 0
    /\ sent = <<>>

\* ret: card_map_from_hands(hands); ret2: hands_from_card_map of that table
RoundTrip ==
    /\ pc = "start"
    /\ pc' = "done"
    /\ ret' = card_map_from_hands(hands)
    /\ ret2' = IF IsSome(ret') THEN hands_from_card_map(ret'.val) ELSE None
    /\ UNCHANGED <<argVars, table>>

NextConv == RoundTrip

SpecConv == InitConv /\ [][NextConv]_vars

\* C3: for every sorted hand of at most 5 cards, card_map_from_hands and then
\* hands_from_card_map returns the original hand.
C3_RoundTrip ==
    (pc = "done" /\ Len(hands) <= HANDS_DEFAULT) => ret2 = Some(hands)

(***************************************************************************)
(* algorithm.rs: last_move                                                 *)
(***************************************************************************)
\* last_move::check_last
check_last(parried, restcards) == SumCards(restcards) <= 1 + parried

\* hands_map is the argument hands: &[Maisuu]; position is (i64, i64).
\* usize::try_from(distance) aborts on a negative distance, distance - 1 aborts or
\* indexes out of bounds at distance 0, CardID::from_u8(..).expect aborts outside 1..5
\* and hands[distance] is out of bounds at distance 5.
last_move(restcards, hands_map, position, parried, t) ==
    LET dist == position[1] - position[2]
        can_attack == SliceIndex(hands_map, dist - 1)
        card == CardID_from_u8(dist)
        quantity == SliceIndex(hands_map, dist)
        h == hands_from_card_map(hands_map)
        possibility == win_poss_attack(restcards, h.val, t, Attack(card.val, quantity.val))
    IN IF ~check_last(parried, restcards) THEN None
       ELSE IF dist < 0 \/ can_attack = Panic \/ card = None \/ quantity = Panic THEN Panic
       ELSE IF can_attack.val = 0 THEN None
       ELSE IF h = None THEN None
       ELSE IF possibility = Panic THEN Panic
       ELSE IF possibility = None THEN None
       ELSE IF possibility.val = RatioOne THEN Some(dist)
       ELSE None

(***************************************************************************)
(* SpecLast: last_move on the count table of a hand                        *)
(***************************************************************************)
\* largest number of parries drawn
MaxParried == 1

InitLast ==
    /\ pc = "start"
    /\ acceptable_numbers = NoAcceptable
    /\ self = 0
    /\ other = 0
    /\ n_u8 = 0
    /\ rest_cards \in EvalRestCards
    /\ hands \in AllHands
    /\ num_of_deck = DeckFor(rest_cards, hands)
    /\ action = NoAction
    /\ distance \in 1..MaxEvalDistance   \* the players never share a cell
    /\ parried_quant \in 0..MaxParried
    /\ table = ProbabilityTableNew(num_of_deck, rest_cards)
    /\ ret = NotCalled
    /\ ret2 = NotCalled
    /\ id = 0
    /\ p0_position = 0
    /\ p1_position = 0
    /\ sent = <<>>

\* the caller passes the count table of its hand and the two positions
LastMove ==
    /\ pc = "start"
    /\ pc' = "done"
    /\ ret' = last_move(rest_cards, card_map_from_hands(hands).val, <<distance, 0>>,
                        parried_quant, table)
    /\ UNCHANGED <<argVars, table, ret2>>

NextLast == LastMove

SpecLast == InitLast /\ [][NextLast]_vars

\* the win probability last_move computes for attacking at the distance
LastMoveComputedWin ==
    LET hands_map == card_map_from_hands(hands).val
        h == hands_from_card_map(hands_map)
    IN IF distance \in 1..4 /\ h # None
       THEN win_poss_attack(rest_cards, h.val, table, Attack(distance, hands_map[distance]))
       ELSE None

\* C7: last_move returns Some(distance) only when the RestCards sum is at most
\* 1 + parried_quant and the win probability computed for attacking at that
\* distance is exactly 1; in every other case it returns None.
C7_SomeOnlyWhenSolvedElseNone ==
    pc = "done" =>
        /\ ret = Some(distance) \/ ret = None
        /\ ret = Some(distance) =>
              /\ SumCards(rest_cards) <= 1 + parried_quant
              /\ LastMoveComputedWin = Some(RatioOne)

\* the first half of C7 alone: what holds of every value last_move returns
LastMoveSomeOnlyWhenSolved ==
    (pc = "done" /\ IsSome(ret)) =>
        /\ ret = Some(distance)
        /\ SumCards(rest_cards) <= 1 + parried_quant
        /\ LastMoveComputedWin = Some(RatioOne)

LastMoveSolvedReached == pc = "done" /\ IsSome(ret)

\* C8: when the RestCards sum is at most 1 + parried_quant, the hand holds a card
\* of rank equal to the distance and the win probability of attacking with that
\* rank is exactly 1, last_move returns Some(distance).
C8_SolvedGivesSome ==
    (/\ pc = "done"
     /\ SumCards(rest_cards) <= 1 + parried_quant
     /\ distance \in CardID
     /\ CountIn(hands, distance) >= 1
     /\ win_poss_attack(rest_cards, hands, table,
                        Attack(distance, CountIn(hands, distance))) = Some(RatioOne))
        => ret = Some(distance)

\* C8, the example of the claim: RestCards [0,0,1,0,0], parried_quant 0, distance 3
\* and a hand containing rank 3 gives Some(3).
C8_Example ==
    (/\ pc = "done"
     /\ rest_cards = [i \in RestIndex |-> IF i = 2 THEN 1 ELSE 0]
     /\ parried_quant = 0
     /\ distance = 3
     /\ CountIn(hands, 3) >= 1)
        => ret = Some(3)

(***************************************************************************)
(* algorithm2.rs: AcceptableNumbers, action_togo, should_go_2_7,           *)
(* middle_move                                                             *)
(***************************************************************************)
\* [Maisuu::THREE, Maisuu::FOUR, Maisuu::FIVE] mapped to hands[i.denote_usize() - 1]
count_4and5(hands_map) == hands_map[3 - 1] + hands_map[4 - 1] + hands_map[5 - 1]

can_use4and5(hands_map, dist) ==
    IF dist >= 12 THEN count_4and5(hands_map) >= 2 ELSE TRUE
can_use3(hands_map) == hands_map[2] > 0
can_use2(hands_map) == hands_map[1] > 1
\* a plausible slip: >= for >
can_use1_nonstrict(hands_map, rest) ==
    LET usedcard_1 == saturating_sub(5, rest[0])
    IN hands_map[0] >= saturating_sub(3, usedcard_1)

can_use1(hands_map, rest) ==
    LET usedcard_1 == saturating_sub(5, rest[0])
    IN hands_map[0] > saturating_sub(3, usedcard_1)

\* AcceptableNumbers::new: the array can_use
AcceptableNumbersNew(hands_map, rest, dist) ==
    [i \in RestIndex |->
        CASE i = 0 -> can_use1(hands_map, rest)
          [] i = 1 -> can_use2(hands_map)
          [] i = 2 -> can_use3(hands_map)
          [] OTHER -> can_use4and5(hands_map, dist)]

action_togo(n, dist) ==
    IF n > dist
    THEN (IF CardID_from_u8(n - dist) = None THEN None
          ELSE Some(Move(CardID_from_u8(n - dist).val, "Back")))
    ELSE IF n < dist
    THEN (IF CardID_from_u8(dist - n) = None THEN None
          ELSE Some(Move(CardID_from_u8(dist - n).val, "Forward")))
    ELSE None

\* a plausible slip: the AcceptableNumbers test is left out
should_go_2_7_ungated(hands_map, dist, rest, t) ==
    LET togo7 == action_togo(7, dist)
        togo2 == action_togo(2, dist)
        taken(togo) ==
            /\ togo # None
            /\ hands_map[togo.val.card - 1] # 0
            /\ togo.val.direction = "Forward"
    IN IF taken(togo7) THEN togo7
       ELSE IF taken(togo2) THEN togo2
       ELSE None

\* a plausible slip: the direction test is left out
should_go_2_7_anydirection(hands_map, dist, rest, t) ==
    LET acceptable == AcceptableNumbersNew(hands_map, rest, dist)
        togo7 == action_togo(7, dist)
        togo2 == action_togo(2, dist)
        taken(togo) ==
            /\ togo # None
            /\ hands_map[togo.val.card - 1] # 0
            /\ acceptable[togo.val.card - 1]
    IN IF taken(togo7) THEN togo7
       ELSE IF taken(togo2) THEN togo2
       ELSE None

\* action_togo only builds Moves, so Action::get_movement keeps every Some
should_go_2_7(hands_map, dist, rest, t) ==
    LET acceptable == AcceptableNumbersNew(hands_map, rest, dist)
        togo7 == action_togo(7, dist)
        togo2 == action_togo(2, dist)
        taken(togo) ==
            /\ togo # None
            /\ hands_map[togo.val.card - 1] # 0
            /\ togo.val.direction = "Forward"
            /\ acceptable[togo.val.card - 1]
    IN IF taken(togo7) THEN togo7
       ELSE IF taken(togo2) THEN togo2
       ELSE None

\* Ratio::from_integer(3) / 4
ThreeQuarters == RatioNew(3, 4)

\* The first att_action of middle_move: None, Some(Attack) or an abort of
\* CardID::from_u8(distance).expect at distance 0.
middle_move_attack(h, dist) ==
    IF dist <= 5
    THEN IF CardID_from_u8(dist) = None THEN Panic
         ELSE IF card_map_from_hands(h) = None THEN None
         ELSE Some(Attack(CardID_from_u8(dist).val,
                          card_map_from_hands(h).val[dist - 1]))
    ELSE None

middle_move(overflow_checks, h, dist, rest, t) ==
    LET att0 == middle_move_attack(h, dist)
        win == win_poss_attack(rest, h, t, att0.val)
        att_action ==
            IF att0 = None \/ win = None THEN None
            ELSE IF RatioLe(ThreeQuarters, win.val) THEN att0
            ELSE None
        map == card_map_from_hands(h)
        mov0 == should_go_2_7(map.val, dist, rest, t)
        safe == safe_possibility(overflow_checks, dist, rest, h, t, mov0.val)
        mov_action ==
            IF RatioLe(ThreeQuarters, safe.val) THEN mov0 ELSE None
    IN IF att0 = Panic THEN Panic
       ELSE IF att0 # None /\ win = Panic THEN Panic
       ELSE IF map = None THEN None
       ELSE IF mov0 = None THEN None
       ELSE IF safe = Panic THEN Panic
       ELSE IF safe = None THEN None
       ELSE IF att_action # None THEN att_action
       ELSE mov_action

(***************************************************************************)
(* SpecMiddle: middle_move                                                 *)
(***************************************************************************)
\* largest distance drawn for middle_move
MaxDistance == 12

InitMiddle ==
    /\ pc = "start"
    /\ acceptable_numbers = NoAcceptable
    /\ self = 0
    /\ other = 0
    /\ n_u8 = 0
    /\ rest_cards \in EvalRestCards
    /\ hands \in AllHands
    /\ num_of_deck = DeckFor(rest_cards, hands)
    /\ action = NoAction
    /\ distance \in 1..MaxDistance   \* the players never share a cell
    /\ parried_quant = 0
    /\ table = ProbabilityTableNew(num_of_deck, rest_cards)
    /\ ret = NotCalled
    /\ ret2 = NotCalled
    /\ id = 0
    /\ p0_position = 0
    /\ p1_position = 0
    /\ sent = <<>>

MiddleMove ==
    /\ pc = "start"
    /\ pc' = "done"
    /\ \E overflow_checks \in BOOLEAN :
          ret' = middle_move(overflow_checks, hands, distance, rest_cards, table)
    /\ UNCHANGED <<argVars, table, ret2>>

NextMiddle == MiddleMove

SpecMiddle == InitMiddle /\ [][NextMiddle]_vars

\* C9: every action middle_move returns is an Attack at a distance <= 5 or a
\* Move whose rank AcceptableNumbers permits for the hand, RestCards and distance.
C9_AttackNearOrGatedMove ==
    (pc = "done" /\ IsSome(ret)) =>
        \/ ret.val.kind = "Attack" /\ distance <= 5
        \/ /\ ret.val.kind = "Move"
           /\ AcceptableNumbersNew(card_map_from_hands(hands).val, rest_cards,
                                   distance)[ret.val.card - 1]

C9_Witness ==
    /\ pc = "done"
    /\ IsSome(ret)
    /\ ret.val.kind = "Move"
    /\ distance > 5

C9_WitnessAttack == pc = "done" /\ IsSome(ret) /\ ret.val.kind = "Attack"

\* the all-copies attack at the current distance
AllCopiesAttack == Attack(distance, CountIn(hands, distance))

\* C10: whenever distance <= 5 and win_poss_attack of the all-copies attack is
\* at least 3/4, middle_move returns that Attack, whether or not a
\* positional-adjustment move exists or is safe.
C10_AttackHasPriority ==
    (/\ pc = "done"
     /\ distance <= 5
     /\ IsSome(win_poss_attack(rest_cards, hands, table, AllCopiesAttack))
     /\ RatioLe(ThreeQuarters,
                win_poss_attack(rest_cards, hands, table, AllCopiesAttack).val))
        => ret = Some(AllCopiesAttack)

\* C10 restricted to hands that hold at least one copy of the rank equal to
\* the distance, so that the attack has a card to play.
C10_HeldRank ==
    CountIn(hands, distance) >= 1 => C10_AttackHasPriority

(***************************************************************************)
(* algorithm2.rs: calc_ave, initial_move                                   *)
(***************************************************************************)
\* Result<Action, &'static str>
Ok(v) == [tag |-> "Ok", val |-> v]
Err(reason) == [tag |-> "Err", val |-> reason]

\* Ratio<u8>: the sum of the five counts over 5 (at most 25, inside u8)
calc_ave(hands_map) == RatioNew(SumCards(hands_map), 5)

\* a plausible slip: the loop runs upwards and stops at the lowest index
first_acceptable_held_lowest(hands_map, acc) ==
    LET hits == {i \in RestIndex : acc[i] /\ hands_map[i] > 0}
    IN IF hits = {} THEN None
       ELSE Some(CHOOSE i \in hits : \A j \in hits : j >= i)

\* for i in (0..5).rev(): the first index that is acceptable and held, if any
first_acceptable_held(hands_map, acc) ==
    LET hits == {i \in RestIndex : acc[i] /\ hands_map[i] > 0}
    IN IF hits = {} THEN None
       ELSE Some(CHOOSE i \in hits : \A j \in hits : j <= i)

\* a plausible slip: distance 12 is let through
initial_move_below12(hands_map, dist, acc) ==
    LET first == first_acceptable_held(hands_map, acc)
    IN IF dist < 12 THEN Err("distance <= 12")
       ELSE IF first # None
       THEN (IF CardID_from_u8(first.val + 1) = None THEN Err("from_u8")
             ELSE Ok(Move(CardID_from_u8(first.val + 1).val, "Forward")))
       ELSE IF ~RatioLe(RatioFromInteger(3), calc_ave(hands_map)) /\ hands_map[2 - 1] > 0
       THEN Ok(Move(CardID_from_u8(2).val, "Forward"))
       ELSE Ok(Move(CardID_from_u8(5).val, "Forward"))

initial_move(hands_map, dist, acc) ==
    LET first == first_acceptable_held(hands_map, acc)
    IN IF dist <= 12 THEN Err("distance <= 12")
       ELSE IF first # None
       THEN (IF CardID_from_u8(first.val + 1) = None THEN Err("from_u8")
             ELSE Ok(Move(CardID_from_u8(first.val + 1).val, "Forward")))
       ELSE IF ~RatioLe(RatioFromInteger(3), calc_ave(hands_map)) /\ hands_map[2 - 1] > 0
       THEN Ok(Move(CardID_from_u8(2).val, "Forward"))
       ELSE Ok(Move(CardID_from_u8(5).val, "Forward"))

(***************************************************************************)
(* SpecInitial: initial_move on every count table and AcceptableNumbers    *)
(***************************************************************************)
\* largest distance drawn for initial_move
MaxInitDistance == 14
\* distance 0, the last distance that is refused, and the distances above it
InitDistances == {0, 12} \cup (13..MaxInitDistance)

\* hands: &[Maisuu; 5]
AllCardMaps == [RestIndex -> Maisuu]
\* AcceptableNumbers { can_use: [bool; 5] }
AllAcceptable == [RestIndex -> BOOLEAN]

InitInitial ==
    /\ pc = "start"
    /\ acceptable_numbers \in AllAcceptable
    /\ self = 0
    /\ other = 0
    /\ n_u8 = 0
    /\ rest_cards = RestCardsNew
    /\ hands \in AllCardMaps
    /\ num_of_deck = 0
    /\ action = NoAction
    /\ distance \in InitDistances
    /\ parried_quant = 0
    /\ table = NoTable
    /\ ret = NotCalled
    /\ ret2 = NotCalled
    /\ id = 0
    /\ p0_position = 0
    /\ p1_position = 0
    /\ sent = <<>>

InitialMove ==
    /\ pc = "start"
    /\ pc' = "done"
    /\ ret' = initial_move(hands, distance, acceptable_numbers)
    /\ UNCHANGED <<argVars, table, ret2>>

NextInitial == InitialMove

SpecInitial == InitInitial /\ [][NextInitial]_vars

C11_WitnessErr == pc = "done" /\ distance = 12 /\ ret.tag = "Err"

\* the indices that are both marked acceptable and held
AcceptableHeld == {i \in RestIndex : acceptable_numbers[i] /\ hands[i] > 0}

\* C12: for distance > 12, if some rank is both acceptable and held, initial_move
\* returns Move Forward with the highest such rank.
C12_HighestAcceptableHeld ==
    (pc = "done" /\ distance > 12 /\ AcceptableHeld # {}) =>
        /\ ret.tag = "Ok"
        /\ ret.val.kind = "Move"
        /\ ret.val.direction = "Forward"
        /\ ret.val.card - 1 \in AcceptableHeld
        /\ \A i \in AcceptableHeld : i + 1 <= ret.val.card

\* two ranks qualify, so that "highest" decides
C12_Witness ==
    /\ pc = "done"
    /\ distance > 12
    /\ Cardinality(AcceptableHeld) >= 2
    /\ ret.tag = "Ok"

\* the sum of the rank values of the cards in hand
RankSum(hands_map) ==
    hands_map[0] + 2 * hands_map[1] + 3 * hands_map[2] + 4 * hands_map[3]
        + 5 * hands_map[4]

\* the average rank value of the cards in hand is below 3
AverageRankBelow3(hands_map) == RankSum(hands_map) < 3 * SumCards(hands_map)

\* C13: for distance > 12, when no rank is both acceptable and held, initial_move
\* returns Move Forward with rank 2 if the average rank value of the cards in
\* hand is below 3, and Move Forward with rank 5 otherwise.
C13_FallbackByAverageRank ==
    (pc = "done" /\ distance > 12 /\ AcceptableHeld = {}) =>
        ret = Ok(Move(IF AverageRankBelow3(hands) THEN 2 ELSE 5, "Forward"))

\* C13 on hands of one to five cards
C13_WellFormedHand ==
    (SumCards(hands) \in 1..HANDS_DEFAULT) => C13_FallbackByAverageRank

(***************************************************************************)
(* SpecAcceptable: AcceptableNumbers::new and should_go_2_7 on the count   *)
(* table of a hand                                                         *)
(***************************************************************************)
\* the value of a call that cannot fail
Returned(v) == [tag |-> "Returned", val |-> v]

\* count tables of hands of at most HANDS_DEFAULT cards
HandCardMaps == {c \in AllCardMaps : SumCards(c) <= HANDS_DEFAULT}

InitAcceptable ==
    /\ pc = "start"
    /\ acceptable_numbers = NoAcceptable
    /\ self = 0
    /\ other = 0
    /\ n_u8 = 0
    /\ rest_cards \in EvalRestCards
    /\ hands \in HandCardMaps
    /\ num_of_deck = 0
    /\ action = NoAction
    /\ distance \in 0..MaxDistance
    /\ parried_quant = 0
    /\ table = NoTable
    /\ ret = NotCalled
    /\ ret2 = NotCalled
    /\ id = 0
    /\ p0_position = 0
    /\ p1_position = 0
    /\ sent = <<>>

AcceptableNew ==
    /\ pc = "start"
    /\ pc' = "done"
    /\ ret2' = Returned(AcceptableNumbersNew(hands, rest_cards, distance))
    /\ UNCHANGED <<argVars, table, ret>>

ShouldGo27 ==
    /\ pc = "start"
    /\ pc' = "done"
    /\ ret' = should_go_2_7(hands, distance, rest_cards, table)
    /\ UNCHANGED <<argVars, table, ret2>>

NextAcceptable == AcceptableNew \/ ShouldGo27

SpecAcceptable == InitAcceptable /\ [][NextAcceptable]_vars

\* C14: should_go_2_7 returns Some(action) only if the action is a Forward Move
\* whose rank is held, is permitted by AcceptableNumbers, and brings the distance
\* to exactly 7 or exactly 2; in every other case it returns None.
C14_SomeOnlyGatedForwardTo7Or2 ==
    (pc = "done" /\ ret # NotCalled) =>
        /\ ret.tag \in {"Some", "None"}
        /\ IsSome(ret) =>
              /\ ret.val.kind = "Move"
              /\ ret.val.direction = "Forward"
              /\ hands[ret.val.card - 1] > 0
              /\ AcceptableNumbersNew(hands, rest_cards, distance)[ret.val.card - 1]
              /\ distance - ret.val.card \in {7, 2}

C14_Witness == pc = "done" /\ IsSome(ret) /\ distance - ret.val.card = 7

C14_WitnessTo2 == pc = "done" /\ IsSome(ret) /\ distance - ret.val.card = 2

\* C15: AcceptableNumbers::new marks ranks 4 and 5 acceptable exactly when
\* distance < 12 or the number of rank-4 cards plus rank-5 cards held is at
\* least 2; cards of other ranks do not count.
C15_Ranks4And5 ==
    (pc = "done" /\ ret2 # NotCalled) =>
        /\ ret2.val[3] <=> (distance < 12 \/ hands[3] + hands[4] >= 2)
        /\ ret2.val[4] <=> (distance < 12 \/ hands[3] + hands[4] >= 2)

C16_WitnessRefused ==
    /\ pc = "done"
    /\ ret2 # NotCalled
    /\ ~ret2.val[0]
    /\ hands[0] > 0

(***************************************************************************)
(* lib.rs: Maisuu::saturating_add, saturating_mul; RestCards::used_card    *)
(***************************************************************************)
\* the largest u8
U8MAX == 255

\* a plausible slip: the sum is wrapped without the clamp
saturating_add_unchecked(a, b) == a + b

\* self.0 + other.0 is at most 10, inside u8
saturating_add(a, b) == IF a + b <= 5 THEN a + b ELSE MaisuuMAX

\* u8::saturating_mul
U8SaturatingMul(a, b) == IF a * b <= U8MAX THEN a * b ELSE U8MAX

saturating_mul(a, m) ==
    IF U8SaturatingMul(a, m) <= 5 THEN U8SaturatingMul(a, m) ELSE MaisuuMAX

(***************************************************************************)
(* SpecMaisuu: the saturating operations on every pair of counts and every *)
(* u8 multiplier                                                           *)
(***************************************************************************)
\* what the operation named f returned
ReturnedBy(f, v) == [tag |-> f, val |-> v]

InitMaisuu ==
    /\ pc = "start"
    /\ acceptable_numbers = NoAcceptable
    /\ self \in Maisuu
    /\ other \in Maisuu
    /\ n_u8 \in 0..U8MAX
    /\ rest_cards = RestCardsNew
    /\ hands = <<>>
    /\ num_of_deck = 0
    /\ action = NoAction
    /\ distance = 0
    /\ parried_quant = 0
    /\ table = NoTable
    /\ ret = NotCalled
    /\ ret2 = NotCalled
    /\ id = 0
    /\ p0_position = 0
    /\ p1_position = 0
    /\ sent = <<>>

SaturatingAdd ==
    /\ pc = "start"
    /\ pc' = "done"
    /\ ret' = ReturnedBy("saturating_add", saturating_add(self, other))
    /\ UNCHANGED <<argVars, table, ret2>>

SaturatingSub ==
    /\ pc = "start"
    /\ pc' = "done"
    /\ ret' = ReturnedBy("saturating_sub", saturating_sub(self, other))
    /\ UNCHANGED <<argVars, table, ret2>>

SaturatingMul ==
    /\ pc = "start"
    /\ pc' = "done"
    /\ ret' = ReturnedBy("saturating_mul", saturating_mul(self, n_u8))
    /\ UNCHANGED <<argVars, table, ret2>>

NextMaisuu == SaturatingAdd \/ SaturatingSub \/ SaturatingMul

SpecMaisuu == InitMaisuu /\ [][NextMaisuu]_vars

Min(a, b) == IF a <= b THEN a ELSE b
Max(a, b) == IF a >= b THEN a ELSE b

\* C17: for all Maisuu values a, b in 0..5 and every multiplier n,
\* saturating_add(a, b) = min(5, a + b), saturating_sub(a, b) = max(0, a - b) and
\* saturating_mul(a, n) = min(5, a * n); every result is a Maisuu in 0..5 and no
\* operation aborts.
C17_SaturatingOps ==
    pc = "done" =>
        /\ ret.val \in 0..5
        /\ ret.tag = "saturating_add" => ret.val = Min(5, self + other)
        /\ ret.tag = "saturating_sub" => ret.val = Max(0, self - other)
        /\ ret.tag = "saturating_mul" => ret.val = Min(5, self * n_u8)

\* the sum is clamped
C17_Witness ==
    /\ pc = "done"
    /\ ret.tag = "saturating_add"
    /\ self + other > 5
    /\ ret.val = 5

\* the u8 product itself saturates before the clamp at 5
C17_WitnessMul ==
    /\ pc = "done"
    /\ ret.tag = "saturating_mul"
    /\ self * n_u8 > U8MAX
    /\ ret.val = 5

C17_WitnessSub ==
    /\ pc = "done"
    /\ ret.tag = "saturating_sub"
    /\ self < other
    /\ ret.val = 0

(***************************************************************************)
(* RestCards::used_card                                                    *)
(***************************************************************************)
\* a plausible slip: an attack is charged once, not for both players
used_card_single(cards, act) ==
    LET i == act.card
    IN IF act.kind = "Move"
       THEN [cards EXCEPT ![i - 1] = saturating_sub(cards[i - 1], 1)]
       ELSE [cards EXCEPT ![i - 1] = saturating_sub(cards[i - 1], act.quantity)]

\* the table after self.used_card(action); i - 1 is in 0..4 for every CardID
used_card(cards, act) ==
    LET i == act.card
    IN IF act.kind = "Move"
       THEN [cards EXCEPT ![i - 1] = saturating_sub(cards[i - 1], 1)]
       ELSE [cards EXCEPT ![i - 1] =
                saturating_sub(cards[i - 1], saturating_mul(act.quantity, 2))]

\* every Attack the type allows
AllAttackActions == {Attack(c, q) : c \in CardID, q \in Maisuu}

InitUsed ==
    /\ pc = "start"
    /\ acceptable_numbers = NoAcceptable
    /\ self = 0
    /\ other = 0
    /\ n_u8 = 0
    /\ rest_cards \in AllRestCards
    /\ hands = <<>>
    /\ num_of_deck = 0
    /\ action \in MoveActions \cup AllAttackActions
    /\ distance = 0
    /\ parried_quant = 0
    /\ table = NoTable
    /\ ret = NotCalled
    /\ ret2 = NotCalled
    /\ id = 0
    /\ p0_position = 0
    /\ p1_position = 0
    /\ sent = <<>>

UsedCard ==
    /\ pc = "start"
    /\ pc' = "done"
    /\ rest_cards' = used_card(rest_cards, action)
    /\ UNCHANGED <<num_of_deck, hands, distance, action, parried_quant,
                   acceptable_numbers, self, other, n_u8, table, ret, ret2,
                   id, p0_position, p1_position, sent>>

NextUsed == UsedCard

SpecUsed == InitUsed /\ [][NextUsed]_vars

\* C18: used_card changes only the slot of the played rank: for a Move of rank r
\* the slot becomes max(0, old - 1), for an Attack of rank r with quantity q it
\* becomes max(0, old - 2q); the other four slots are unchanged.
C18_UsedCardFrame ==
    [][\A i \in RestIndex :
          rest_cards'[i] =
             IF i # action.card - 1 THEN rest_cards[i]
             ELSE IF action.kind = "Move" THEN Max(0, rest_cards[i] - 1)
             ELSE Max(0, rest_cards[i] - 2 * action.quantity)]_vars

\* an attack with two cards took four from a slot that held five
C18_Witness ==
    /\ pc = "done"
    /\ action.kind = "Attack"
    /\ action.quantity = 2
    /\ rest_cards[action.card - 1] = 1
    /\ \A i \in RestIndex : i # action.card - 1 => rest_cards[i] = 5

(***************************************************************************)
(* bin/engarde_client.rs: the session loop of main and act                 *)
(*                                                                         *)
(* rest_cards is the local cards, hands is my_info.hand and distance is    *)
(* board_state.p1_position - board_state.p0_position as an integer.        *)
(***************************************************************************)
\* BoardInfo::new
P0_POSITION_NEW == 0
P1_POSITION_NEW == 23

\* most cards in a hand a HandInfo message delivers in the model
MaxSessionHand == 1
\* largest p1_position - p0_position a BoardInfo message delivers in the model
MaxSessionDistance == 1

\* hands of up to MaxSessionHand cards of one number
SessionHands == {Repeat(c, k) : c \in CardID, k \in 0..MaxSessionHand}
\* the boards that differ for act: -1 stands for one with p1_position < p0_position
\* (no attack, the subtraction underflows), the other names a card to attack with
SessionDistances == {-1, MaxSessionDistance}

\* BoardInfo::distance_between_enemy: the u8 subtraction p1_position - p0_position
distance_between_enemy(overflow_checks, d) ==
    IF d >= 0 THEN Some(d)
    ELSE IF overflow_checks THEN Panic
    ELSE Some(d + 256)

\* ask_movement: a held card and a direction
AskMovement(h) == {Move(h[j], d) : j \in DOMAIN h, d \in Directions}

\* ask_attack: the card of the distance, held, with a quantity up to the held
\* count; Lack (no action) otherwise.  Maisuu::from_u8(quantity) cannot fail as
\* quantity <= have <= 5.
AskAttack(h, d) ==
    IF CardID_from_u8(d) = None \/ CountIn(h, d) = 0 THEN {}
    ELSE {Attack(d, q) : q \in 0..CountIn(h, d)}

\* a plausible slip: plain subtraction for saturating_sub
act_unsaturated(cards, a) ==
    LET i == a.card - 1
    IN IF a.kind = "Move"
       THEN [cards EXCEPT ![i] = cards[i] - 1]
       ELSE [cards EXCEPT ![i] = cards[i] - saturating_mul(a.quantity, 2)]

\* act: what the match on the chosen action leaves in cards
act(cards, a) ==
    LET i == a.card - 1
    IN IF a.kind = "Move"
       THEN [cards EXCEPT ![i] = saturating_sub(cards[i], 1)]
       ELSE [cards EXCEPT ![i] = saturating_sub(cards[i], saturating_mul(a.quantity, 2))]

sessionFrame == <<num_of_deck, action, parried_quant, acceptable_numbers, self, other,
                  n_u8, table, ret, ret2, id, p0_position, p1_position>>

\* Evaluation::new(): only "1F" is filled
Evaluation_new ==
    [typ |-> "Evaluation", message_id |-> "-", play_card |-> "-",
     direction_string |-> "-", num_of_card |-> "-"]

\* Display for Direction
DirectionToString(direction) == IF direction = "Forward" THEN "F" ELSE "B"

PlayMovement_from_info(info) ==
    [typ |-> "Play", message_id |-> "101", play_card |-> ToString(info.card),
     direction_string |-> DirectionToString(info.direction), num_of_card |-> "-"]

PlayAttack_from_info(info) ==
    [typ |-> "Play", message_id |-> "102", play_card |-> ToString(info.card),
     direction_string |-> "-", num_of_card |-> ToString(info.quantity)]

InitSession ==
    /\ pc = "loop"
    /\ acceptable_numbers = NoAcceptable
    /\ self = 0
    /\ other = 0
    /\ n_u8 = 0
    /\ rest_cards = RestCardsNew
    /\ hands = <<>>
    /\ num_of_deck = 0
    /\ action = NoAction
    /\ distance = P1_POSITION_NEW - P0_POSITION_NEW
    /\ parried_quant = 0
    /\ table = NoTable
    /\ ret = NotCalled
    /\ ret2 = NotCalled
    /\ id = 0
    /\ p0_position = 0
    /\ p1_position = 0
    /\ sent = <<>>

RecvBoardInfo ==
    /\ pc = "loop"
    /\ \E d \in SessionDistances : distance' = d
    /\ sent' = <<>>
    /\ UNCHANGED <<pc, rest_cards, hands, sessionFrame>>

RecvHandInfo ==
    /\ pc = "loop"
    /\ \E h \in SessionHands : hands' = h
    /\ sent' = <<>>
    /\ UNCHANGED <<pc, rest_cards, distance, sessionFrame>>

RecvAccept ==
    /\ pc = "loop"
    /\ sent' = <<>>
    /\ UNCHANGED <<pc, rest_cards, hands, distance, sessionFrame>>

\* act(..): the Evaluation is sent, the player is asked until an action is
\* complete, and cards is updated.  Choosing an attack evaluates
\* distance_between_enemy, which aborts under overflow checks when
\* p1_position < p0_position.  With an empty hand the questions never end.
\* The two send_info calls of the match arms are commented out in the source.
Act ==
    \/ /\ \E overflow_checks \in BOOLEAN :
            \E a \in AskMovement(hands) \cup
                     (IF distance_between_enemy(overflow_checks, distance) = Panic
                      THEN {}
                      ELSE AskAttack(hands,
                                     distance_between_enemy(overflow_checks, distance).val)) :
               rest_cards' = act(rest_cards, a)
       /\ sent' = <<Evaluation_new>>
       /\ UNCHANGED <<pc, hands, distance, sessionFrame>>
    \/ /\ distance_between_enemy(TRUE, distance) = Panic
       /\ pc' = "aborted"
       /\ sent' = <<Evaluation_new>>
       /\ UNCHANGED <<rest_cards, hands, distance, sessionFrame>>

RecvDoPlay ==
    /\ pc = "loop"
    /\ Act

RecvServerError ==
    /\ pc = "loop"
    /\ Act

RecvPlayed ==
    /\ pc = "loop"
    /\ \E a \in MoveActions \cup AllAttackActions :
          rest_cards' = used_card(rest_cards, a)
    /\ sent' = <<>>
    /\ UNCHANGED <<pc, hands, distance, sessionFrame>>

\* PlayedMoveMent / PlayedAttack::from_deserialized: expect on a card outside 1..5,
\* a count above 5 or an unknown direction
RecvPlayedOutOfRange ==
    /\ pc = "loop"
    /\ pc' = "aborted"
    /\ sent' = <<>>
    /\ UNCHANGED <<rest_cards, hands, distance, sessionFrame>>

RecvRoundEnd ==
    /\ pc = "loop"
    /\ rest_cards' = RestCardsNew
    /\ sent' = <<>>
    /\ UNCHANGED <<pc, hands, distance, sessionFrame>>

RecvGameEnd ==
    /\ pc = "loop"
    /\ pc' = "ended"
    /\ sent' = <<>>
    /\ UNCHANGED <<rest_cards, hands, distance, sessionFrame>>

\* Messages::parse failed: two lines are printed and the loop goes on
RecvUnparsable ==
    /\ pc = "loop"
    /\ sent' = <<>>
    /\ UNCHANGED <<pc, rest_cards, hands, distance, sessionFrame>>

\* read_stream, send_info or print returned an io::Error: main returns it
IoError ==
    /\ pc = "loop"
    /\ pc' = "ended"
    /\ sent' = <<>>
    /\ UNCHANGED <<rest_cards, hands, distance, sessionFrame>>

NextSession ==
    \/ RecvBoardInfo
    \/ RecvHandInfo
    \/ RecvAccept
    \/ RecvDoPlay
    \/ RecvServerError
    \/ RecvPlayed
    \/ RecvPlayedOutOfRange
    \/ RecvRoundEnd
    \/ RecvGameEnd
    \/ RecvUnparsable
    \/ IoError

SpecSession == InitSession /\ [][NextSession]_vars

\* C19: starting from RestCards all 5, after any sequence of DoPlay, Played and
\* RoundEnd messages every slot stays in 0..5, no slot increases between two
\* RoundEnd messages, and immediately after each RoundEnd every slot equals 5.
C19_SlotsBoundedMonotoneReset ==
    /\ [](\A i \in RestIndex : rest_cards[i] \in 0..5)
    /\ [][RecvRoundEnd \/ \A i \in RestIndex : rest_cards'[i] <= rest_cards[i]]_vars
    /\ [][RecvRoundEnd => \A i \in RestIndex : rest_cards'[i] = 5]_vars

\* a round has been played down: one slot is empty and another is partly used
C19_Witness ==
    /\ pc = "loop"
    /\ \E i \in RestIndex : rest_cards[i] = 0
    /\ \E i \in RestIndex : rest_cards[i] \in 1..4

\* C20: card_map_from_hands returns None for every hand of more than 5 cards,
\* and returns the per-rank occurrence counts for every hand of at most 5 cards.
C20_NoneIffLongerThan5 ==
    pc = "done" =>
        /\ Len(hands) > 5 => ret = None
        /\ Len(hands) <= 5 => ret = Some([i \in RestIndex |-> CountIn(hands, i + 1)])

\* the half of C20 on hands of at most 5 cards
CardMapOfShortHand ==
    (pc = "done" /\ Len(hands) <= 5) =>
        ret = Some([i \in RestIndex |-> CountIn(hands, i + 1)])

\* the only hands refused are those holding one number more than five times
CardMapNoneOnlyAboveFiveCopies ==
    (pc = "done" /\ ret = None) => \E c \in CardID : CountIn(hands, c) > 5

\* C21: hands_from_card_map returns a hand for every count table whose total
\* over the five ranks is at most 5, and returns None exactly when that total
\* exceeds 5.
C21_HandIffTotalAtMost5 ==
    (pc = "done" /\ IsSome(ret)) =>
        /\ SumCards(ret.val) <= 5 => IsSome(ret2)
        /\ SumCards(ret.val) > 5 <=> ret2 = None

\* C21 on the count tables of hands of exactly five cards
C21_FullHand ==
    (pc = "done" /\ IsSome(ret) /\ SumCards(ret.val) = 5) => IsSome(ret2)

\* what the conversion does decide on: the total of entries 1..4
HandsFromCardMapSomeIffTailIs5 ==
    (pc = "done" /\ IsSome(ret)) =>
        (IsSome(ret2) <=> ret.val[1] + ret.val[2] + ret.val[3] + ret.val[4] = 5)

\* C22: when every RestCards slot is 0, ProbabilityTable::new yields for every
\* rank and every deck size P(0) = 1 and P(k) = 0 for k = 1..5.
C22_AllZeroTable ==
    (pc = "done" /\ \A i \in RestIndex : rest_cards[i] = 0) =>
        \A c \in CardID :
            /\ access(table, c, 0) = RatioOne
            /\ \A k \in 1..5 : access(table, c, k) = RatioZero

C22_Witness ==
    /\ pc = "done"
    /\ \A i \in RestIndex : rest_cards[i] = 0
    /\ num_of_deck = MaxDeck
    /\ access(table, 5, 0) = RatioOne

\* the opponent rank a Move implies: distance - rank Forward, distance + rank Back
ImpliedRank ==
    IF action.direction = "Forward" THEN distance - action.card
    ELSE distance + action.card

\* the 'all copies accounted for' guard of a Move on the slot of its own rank
MoveGuard ==
    rest_cards[action.card - 1] <=
        saturating_sub(CountIn(hands, action.card),
                       IF action.direction = "Forward" /\ distance = 2 * action.card
                       THEN 1 ELSE 0)

\* C23: for a Move whose implied opponent rank falls outside 1..5 and whose 'all
\* copies accounted for' guard does not hold, safe_possibility returns None, not
\* a probability value.
C23_MoveOutOfRangeGivesNone ==
    (/\ pc = "done"
     /\ action.kind = "Move"
     /\ ImpliedRank \notin 1..5
     /\ ~MoveGuard) => ret = None

\* C23 where the subtraction distance - rank does not underflow and the index of
\* the guard is inside the table
C23_NoAbortInvolved ==
    (action.card <= 4 /\ ImpliedRank > 5) => C23_MoveOutOfRangeGivesNone

\* what the code returns there: the value 0
MoveOutOfRangeGivesZero ==
    (/\ pc = "done"
     /\ action.kind = "Move"
     /\ action.card <= 4
     /\ ImpliedRank > 5
     /\ rest_cards[action.card] > CountIn(hands, action.card)) => ret = Some(RatioZero)

\* C24: for every RestCards table, every hand of at most 5 cards and every Attack
\* of rank 1..5, rank 5 included, safe_possibility and win_poss_attack return a
\* value and never abort.
C24_AttackNeverAborts ==
    (pc = "done" /\ action.kind = "Attack") =>
        /\ ret.tag = "Some"
        /\ ret2.tag = "Some"

\* the abort is confined to rank 5
AttackAbortsExactlyAtRank5 ==
    (pc = "done" /\ action.kind = "Attack") =>
        /\ ret = Panic <=> action.card = 5
        /\ ret2 = Panic <=> action.card = 5

\* the sum of ProbabilityTable[r][k] over the k in {0,1,2,3} below the number of
\* copies of rank r in hand
WinSumBelowHeld(r) ==
    RatioSum([j \in 1..4 |->
        IF j - 1 < CountIn(hands, r) THEN access(table, r, j - 1) ELSE RatioZero])

\* C25: for an Attack of rank r, win_poss_attack returns exactly 1 when
\* RestCounts[r] is strictly less than the number of copies of rank r in hand,
\* and otherwise the sum of ProbabilityTable[r][k] over those k in {0,1,2,3}
\* that are strictly less than that number of copies.
C25_WinPossAttackFormula ==
    (pc = "done" /\ action.kind = "Attack") =>
        ret2 = Some(IF rest_cards[action.card - 1] < CountIn(hands, action.card)
                    THEN RatioOne
                    ELSE WinSumBelowHeld(action.card))

\* C25 for ranks 1..4, where win_poss_attack returns
C25_BelowRank5 ==
    action.card <= 4 => C25_WinPossAttackFormula

\* C25 on the hand [3,3,3] attacking with rank 3
C25_Example ==
    (hands = <<3, 3, 3>> /\ action.card = 3 /\ rest_cards[2] = 5) =>
        C25_WinPossAttackFormula

(***************************************************************************)
(* SpecTwice: check_twice as safe_possibility calls it for a Move Forward  *)
(***************************************************************************)
\* largest distance drawn for check_twice
MaxTwiceDistance == 23

InitTwice ==
    /\ pc = "start"
    /\ acceptable_numbers = NoAcceptable
    /\ self = 0
    /\ other = 0
    /\ n_u8 = 0
    /\ rest_cards = RestCardsNew
    /\ hands = <<>>
    /\ num_of_deck = 0
    /\ action \in {Move(c, "Forward") : c \in CardID}
    /\ distance \in 0..MaxTwiceDistance
    /\ parried_quant = 0
    /\ table = NoTable
    /\ ret = NotCalled
    /\ ret2 = NotCalled
    /\ id = 0
    /\ p0_position = 0
    /\ p1_position = 0
    /\ sent = <<>>

\* let dup = check_twice(distance, card.denote());
CheckTwice ==
    /\ pc = "start"
    /\ pc' = "done"
    /\ \E overflow_checks \in BOOLEAN :
          ret' = check_twice(overflow_checks, distance, action.card)
    /\ UNCHANGED <<argVars, table, ret2>>

NextTwice == CheckTwice

SpecTwice == InitTwice /\ [][NextTwice]_vars

\* C26: for a Move Forward of rank r at any distance in 0..23, the dup flag is
\* true exactly when distance = 2 * r and false otherwise, and its computation
\* in 8-bit unsigned arithmetic never underflows.
C26_DupIffTwiceRank ==
    pc = "done" => ret = Some(distance = 2 * action.card)

\* C26 at distance 5 and rank 3
C26_Example ==
    (distance = 5 /\ action.card = 3) => C26_DupIffTwiceRank

\* wherever check_twice returns, the flag is right
DupRightWhereReturned ==
    (pc = "done" /\ IsSome(ret)) => ret.val = (distance = 2 * action.card)

\* the abort happens exactly under overflow checks at distance < 2 * rank
DupAbortOnlyBelowTwiceRank ==
    (pc = "done" /\ ret = Panic) => distance < 2 * action.card

\* C27: every Attack returned by middle_move has rank equal to the current
\* distance and quantity equal to the number of copies of that rank in the hand,
\* and that quantity is at least 1.
C27_AttackUsesHeldCopies ==
    (pc = "done" /\ IsSome(ret) /\ ret.val.kind = "Attack") =>
        /\ ret.val.card = distance
        /\ ret.val.quantity = CountIn(hands, distance)
        /\ ret.val.quantity >= 1

\* C27 on hands of exactly five cards
C27_FullHand ==
    Len(hands) = HANDS_DEFAULT => C27_AttackUsesHeldCopies

\* the first two parts of C27: rank and quantity are those of the distance
MiddleAttackRankAndCount ==
    (pc = "done" /\ IsSome(ret) /\ ret.val.kind = "Attack") =>
        /\ ret.val.card = distance
        /\ ret.val.quantity = CountIn(hands, distance)

(***************************************************************************)
(* SpecOpening: initial_move with the AcceptableNumbers computed from the  *)
(* same count table, as bin/using_algorithm.rs act calls it                *)
(***************************************************************************)
InitOpening ==
    /\ pc = "start"
    /\ acceptable_numbers = NoAcceptable
    /\ self = 0
    /\ other = 0
    /\ n_u8 = 0
    /\ rest_cards \in EvalRestCards
    /\ hands \in HandCardMaps
    /\ num_of_deck = 0
    /\ action = NoAction
    /\ distance \in InitDistances
    /\ parried_quant = 0
    /\ table = NoTable
    /\ ret = NotCalled
    /\ ret2 = NotCalled
    /\ id = 0
    /\ p0_position = 0
    /\ p1_position = 0
    /\ sent = <<>>

\* let acceptable = AcceptableNumbers::new(card_map, restcard, distance);
\* let initial = initial_move(&card_map, distance, &acceptable)
OpeningMove ==
    /\ pc = "start"
    /\ pc' = "done"
    /\ acceptable_numbers' = AcceptableNumbersNew(hands, rest_cards, distance)
    /\ ret' = initial_move(hands, distance, acceptable_numbers')
    /\ UNCHANGED <<num_of_deck, rest_cards, hands, distance, action, parried_quant,
                   self, other, n_u8, table, ret2, id, p0_position, p1_position, sent>>

NextOpening == OpeningMove

SpecOpening == InitOpening /\ [][NextOpening]_vars

\* C28: for every distance > 12, every hand count table, hands of fewer than 5
\* cards included, and the AcceptableNumbers computed from it, the Move returned
\* by initial_move uses a rank of which the hand holds at least one card.
C28_OpeningMoveIsHeld ==
    (pc = "done" /\ distance > 12 /\ ret.tag = "Ok") =>
        hands[ret.val.card - 1] >= 1

\* C28 on non-empty hands with no rank-1 card seen played
C28_NonEmptyHand ==
    (SumCards(hands) >= 1 /\ rest_cards[0] = 5) => C28_OpeningMoveIsHeld

\* C28 on hands of exactly five cards
OpeningMoveIsHeldFullHand ==
    SumCards(hands) = HANDS_DEFAULT => C28_OpeningMoveIsHeld

(***************************************************************************)
(* lib.rs: Action::as_index, Action::from_index                            *)
(***************************************************************************)
\* a plausible slip: the Back moves start at 4
as_index_backoffset(overflow_checks, a) ==
    IF a.kind = "Move"
    THEN (IF a.direction = "Forward" THEN Some(a.card - 1)
          ELSE Some(4 + (a.card - 1)))
    ELSE IF a.quantity >= 1
    THEN Some(5 * 2 + 5 * (a.card - 1) + (a.quantity - 1))
    ELSE IF overflow_checks THEN Panic
    ELSE Some(5 * 2 + 5 * (a.card - 1) - 1)

\* quantity.denote_usize() - 1 is a usize subtraction: for quantity 0 it aborts
\* under overflow checks and wraps without them, and the wrapping sum is one
\* less than the index of quantity 1
as_index(overflow_checks, a) ==
    IF a.kind = "Move"
    THEN (IF a.direction = "Forward" THEN Some(a.card - 1)
          ELSE Some(5 + (a.card - 1)))
    ELSE IF a.quantity >= 1
    THEN Some(5 * 2 + 5 * (a.card - 1) + (a.quantity - 1))
    ELSE IF overflow_checks THEN Panic
    ELSE Some(5 * 2 + 5 * (a.card - 1) - 1)

\* the last arm is unreachable!()
from_index(idx) ==
    IF idx \in 0..4 THEN Some(Move(idx + 1, "Forward"))
    ELSE IF idx \in 5..9 THEN Some(Move(idx - 5 + 1, "Back"))
    ELSE IF idx \in 10..34
    THEN Some(Attack(((idx - 10) \div 5) + 1, ((idx - 10) % 5) + 1))
    ELSE Panic

(***************************************************************************)
(* SpecIndex: as_index and from_index on every action and on indices       *)
(***************************************************************************)
\* largest index drawn for from_index
MaxIndex == 36

InitIndex ==
    /\ pc = "start"
    /\ acceptable_numbers = NoAcceptable
    /\ self = 0
    /\ other = 0
    /\ n_u8 \in 0..MaxIndex    \* the argument idx: usize
    /\ rest_cards = RestCardsNew
    /\ hands = <<>>
    /\ num_of_deck = 0
    /\ action \in MoveActions \cup AllAttackActions
    /\ distance = 0
    /\ parried_quant = 0
    /\ table = NoTable
    /\ ret = NotCalled
    /\ ret2 = NotCalled
    /\ id = 0
    /\ p0_position = 0
    /\ p1_position = 0
    /\ sent = <<>>

\* Action::from_index(action.as_index())
AsIndex ==
    /\ pc = "start"
    /\ pc' = "done"
    /\ \E overflow_checks \in BOOLEAN :
          ret' = as_index(overflow_checks, action)
    /\ ret2' = IF IsSome(ret') THEN from_index(ret'.val) ELSE NotCalled
    /\ UNCHANGED <<argVars, table>>

\* Action::from_index(idx)
FromIndex ==
    /\ pc = "start"
    /\ pc' = "done"
    /\ ret2' = from_index(n_u8)
    /\ UNCHANGED <<argVars, table, ret>>

NextIndex == AsIndex \/ FromIndex

SpecIndex == InitIndex /\ [][NextIndex]_vars

\* every Move and every Attack of quantity 1..5
ClaimedActions == MoveActions \cup {a \in AllAttackActions : a.quantity >= 1}

\* C29: for every Move (rank 1..5, Forward or Back) and every Attack (rank 1..5,
\* quantity 1..5), as_index lies in 0..34, distinct actions have distinct
\* indices, and from_index(as_index(a)) = a.
C29_IndexRoundTrip ==
    (pc = "done" /\ ret # NotCalled /\ action \in ClaimedActions) =>
        /\ IsSome(ret)
        /\ ret.val \in 0..34
        /\ \A b \in ClaimedActions :
              b # action => \A oc \in BOOLEAN : as_index(oc, b) # ret
        /\ ret2 = Some(action)

\* the last index, of the attack with five 5s
C29_Witness ==
    /\ pc = "done"
    /\ action = Attack(5, 5)
    /\ ret = Some(34)
    /\ ret2 = Some(action)

(***************************************************************************)
(* What the clients write to the server.                                   *)
(***************************************************************************)
\* send_action of random.rs and using_algorithm.rs
send_action(a) ==
    IF a.kind = "Move" THEN PlayMovement_from_info(a) ELSE PlayAttack_from_info(a)

\* C30: in response to each DoPlay message a client sends exactly one Evaluation
\* message and then exactly one Play message for the chosen action, and it sends
\* nothing in response to BoardInfo, HandInfo, Accept, Played or RoundEnd.
\* Stated here on the receive loop of the interactive engarde_client.
C30_EvaluationThenPlayOnDoPlay ==
    /\ [][RecvDoPlay =>
            \E a \in MoveActions \cup AllAttackActions :
               sent' = <<Evaluation_new, send_action(a)>>]_vars
    /\ [][(RecvBoardInfo \/ RecvHandInfo \/ RecvAccept \/ RecvPlayed \/ RecvRoundEnd) =>
            sent' = <<>>]_vars

\* all that the interactive client ever writes in an arm is one Evaluation
InteractiveSendsEvaluationOnly == sent \in {<<>>, <<Evaluation_new>>}

\* the second half of C30 on the interactive client
InteractiveSilentOtherwise ==
    [][(RecvBoardInfo \/ RecvHandInfo \/ RecvAccept \/ RecvPlayed \/ RecvRoundEnd) =>
         sent' = <<>>]_vars

\* the interactive client has answered a DoPlay
InteractiveAnswered ==
    /\ pc = "loop"
    /\ sent = <<Evaluation_new>>
    /\ \E i \in RestIndex : rest_cards[i] < 5

(***************************************************************************)
(* random.rs: MyState and the receive loop of random_main                  *)
(***************************************************************************)
\* u8::checked_sub
checked_sub(a, b) == IF a >= b THEN Some(a - b) ELSE None

\* attack_cards: the attack with every held copy, if any is held (and at most 5)
attack_cards(h, card) ==
    LET have == CountIn(h, card)
    IN IF have > 5 THEN {}
       ELSE IF have > 0 THEN {Attack(card, have)}
       ELSE {}

decide_moves(for_back, for_forward, card) ==
    (IF for_back THEN {Move(card, "Back")} ELSE {}) \cup
    (IF for_forward THEN {Move(card, "Forward")} ELSE {})

\* MyState::actions.  The u8 additions cannot overflow on positions of the track.
actions(player, h, p0, p1) ==
    LET held == {h[j] : j \in DOMAIN h}
        moves ==
            IF player = 0
            THEN UNION {decide_moves(saturating_sub(p0, card) >= 1,
                                     p0 + card < p1, card) : card \in held}
            ELSE UNION {decide_moves(p1 + card <= 23,
                                     saturating_sub(p1, card) > p0, card) : card \in held}
        n == checked_sub(p1, p0)
        attack ==
            IF ~IsSome(n) THEN {}
            ELSE IF ~IsSome(CardID_from_u8(n.val)) THEN {}
            ELSE attack_cards(h, n.val)
    IN moves \cup attack

\* most cards in a hand a HandInfo message delivers to the random client
MaxRandomHand == 2
\* largest position near the start of the track a BoardInfo message delivers
MaxRandomPosition == 3

\* the sorted hands of up to MaxRandomHand cards
RandomHands ==
    {h \in UNION {[1..k -> CardID] : k \in 0..MaxRandomHand} :
        \A j \in 1..(Len(h) - 1) : h[j] <= h[j + 1]}
\* positions at the start of the track and its last square
RandomPositions == (0..MaxRandomPosition) \cup {23}

randomFrame == <<num_of_deck, rest_cards, distance, parried_quant, acceptable_numbers,
                 self, other, n_u8, table, ret, ret2, id>>

\* MyState::new(id, vec![], 1, 23)
InitRandom ==
    /\ pc = "loop"
    /\ acceptable_numbers = NoAcceptable
    /\ self = 0
    /\ other = 0
    /\ n_u8 = 0
    /\ rest_cards = RestCardsNew
    /\ hands = <<>>
    /\ num_of_deck = 0
    /\ action = NoAction
    /\ distance = 0
    /\ parried_quant = 0
    /\ table = NoTable
    /\ ret = NotCalled
    /\ ret2 = NotCalled
    /\ id \in {0, 1}
    /\ p0_position = 1
    /\ p1_position = 23
    /\ sent = <<>>

\* update_board
RandomBoardInfo ==
    /\ pc = "loop"
    /\ \E p0 \in RandomPositions, p1 \in RandomPositions :
          /\ p0_position' = p0
          /\ p1_position' = p1
    /\ sent' = <<>>
    /\ UNCHANGED <<pc, hands, action, randomFrame>>

\* update_hands: the hand is kept sorted
RandomHandInfo ==
    /\ pc = "loop"
    /\ \E h \in RandomHands : hands' = h
    /\ sent' = <<>>
    /\ UNCHANGED <<pc, p0_position, p1_position, action, randomFrame>>

RandomAccept ==
    /\ pc = "loop"
    /\ sent' = <<>>
    /\ UNCHANGED <<pc, hands, p0_position, p1_position, action, randomFrame>>

\* state.act(rng) picks one of actions(); with none to pick the unwrap_or_else
\* aborts before anything is written
RandomDoPlay ==
    /\ pc = "loop"
    /\ \/ /\ \E a \in actions(id, hands, p0_position, p1_position) :
               /\ action' = a
               /\ sent' = <<Evaluation_new, send_action(a)>>
          /\ UNCHANGED <<pc, hands, p0_position, p1_position, randomFrame>>
       \/ /\ actions(id, hands, p0_position, p1_position) = {}
          /\ pc' = "aborted"
          /\ sent' = <<>>
          /\ UNCHANGED <<hands, p0_position, p1_position, action, randomFrame>>

\* two lines are printed and the loop is left
RandomServerError ==
    /\ pc = "loop"
    /\ pc' = "ended"
    /\ sent' = <<>>
    /\ UNCHANGED <<hands, p0_position, p1_position, action, randomFrame>>

RandomPlayed ==
    /\ pc = "loop"
    /\ sent' = <<>>
    /\ UNCHANGED <<pc, hands, p0_position, p1_position, action, randomFrame>>

\* PlayedMoveMent / PlayedAttack::from_deserialized: expect inside Messages::parse
RandomPlayedOutOfRange ==
    /\ pc = "loop"
    /\ pc' = "aborted"
    /\ sent' = <<>>
    /\ UNCHANGED <<hands, p0_position, p1_position, action, randomFrame>>

RandomRoundEnd ==
    /\ pc = "loop"
    /\ sent' = <<>>
    /\ UNCHANGED <<pc, hands, p0_position, p1_position, action, randomFrame>>

RandomGameEnd ==
    /\ pc = "loop"
    /\ pc' = "ended"
    /\ sent' = <<>>
    /\ UNCHANGED <<hands, p0_position, p1_position, action, randomFrame>>

\* Messages::parse failed: two lines are printed and the loop goes on
RandomUnparsable ==
    /\ pc = "loop"
    /\ sent' = <<>>
    /\ UNCHANGED <<pc, hands, p0_position, p1_position, action, randomFrame>>

\* read_stream returned an io::Error: random_main returns it
RandomIoError ==
    /\ pc = "loop"
    /\ pc' = "ended"
    /\ sent' = <<>>
    /\ UNCHANGED <<hands, p0_position, p1_position, action, randomFrame>>

NextRandom ==
    \/ RandomBoardInfo
    \/ RandomHandInfo
    \/ RandomAccept
    \/ RandomDoPlay
    \/ RandomServerError
    \/ RandomPlayed
    \/ RandomPlayedOutOfRange
    \/ RandomRoundEnd
    \/ RandomGameEnd
    \/ RandomUnparsable
    \/ RandomIoError

SpecRandom == InitRandom /\ [][NextRandom]_vars

\* C30 on the random client
RandomEvaluationThenPlayOnDoPlay ==
    /\ [][RandomDoPlay => sent' = <<Evaluation_new, send_action(action')>>]_vars
    /\ [][(RandomBoardInfo \/ RandomHandInfo \/ RandomAccept \/ RandomPlayed
              \/ RandomRoundEnd) => sent' = <<>>]_vars

\* what the random client does: whenever it survives a DoPlay it has sent the
\* Evaluation and the Play of the action it chose, and the other messages get no
\* answer
RandomRepliesWhenItCanAct ==
    /\ [][(RandomDoPlay /\ pc' = "loop") =>
            sent' = <<Evaluation_new, send_action(action')>>]_vars
    /\ [][(RandomBoardInfo \/ RandomHandInfo \/ RandomAccept \/ RandomPlayed
              \/ RandomRoundEnd) => sent' = <<>>]_vars

\* the random client has answered a DoPlay with an attack
RandomAnswered ==
    /\ pc = "loop"
    /\ Len(sent) = 2
    /\ sent[2].message_id = "102"

====
